---- MODULE Spec2Model ----
(***************************************************************************)
(* A model of the dcap-qvl command line tool (cli/src/main.rs): the three  *)
(* commands decode, verify and collateral, the hex normalisation of the    *)
(* quote file, the choice of the collateral source from PCCS_URL, and the  *)
(* export of the collateral record.                                        *)
(*                                                                         *)
(* Bytes are integers 0..255.  Text (a Rust String) is a sequence of       *)
(* one-character strings.  A Result is a record [ok, val, err]; err is the *)
(* anyhow chain of the error, outermost context first, root cause last.    *)
(***************************************************************************)
EXTENDS Integers, Sequences, FiniteSets, TLC

\* ------------------------------------------------------------------ bounds

\* Longest raw file content enumerated for the normaliser.
MaxText == 4
\* Longest byte sequence B whose hex encodings are enumerated.
MaxBytes == 2
\* Longest signature of a retrieved collateral.
MaxSig == 1

\* ----------------------------------------------------------------- helpers

Ok(v) == [ok |-> TRUE, val |-> v, err |-> <<>>]
Err(chain) == [ok |-> FALSE, val |-> <<>>, err |-> chain]

\* anyhow's .context(c) on a Result: an error gets c in front of its chain.
WithContext(r, c) == IF r.ok THEN r ELSE Err(<<c>> \o r.err)

SeqsUpTo(S, n) == UNION {[1..k -> S] : k \in 0..n}

RECURSIVE Concat(_)
Concat(ss) == IF ss = <<>> THEN <<>> ELSE Head(ss) \o Concat(Tail(ss))

\* -------------------------------------------------------- hex (the hex crate)

HexDigits == <<"0", "1", "2", "3", "4", "5", "6", "7",
               "8", "9", "a", "b", "c", "d", "e", "f">>

\* hex::encode: two lowercase digits per byte, high nibble first.
hex_encode(bytes) ==
    Concat([i \in 1..Len(bytes) |->
              <<HexDigits[(bytes[i] \div 16) + 1], HexDigits[(bytes[i] % 16) + 1]>>])

\* The UTF-8 byte of an ASCII character of a hex dump.
Ascii(c) ==
    CASE c = "\n" -> 10
      [] c = "x" -> 120
      [] \E i \in 1..10 : HexDigits[i] = c -> 47 + (CHOOSE i \in 1..10 : HexDigits[i] = c)
      [] OTHER -> 86 + (CHOOSE i \in 11..16 : HexDigits[i] = c)

AsBytes(text) == [i \in 1..Len(text) |-> Ascii(text[i])]

\* The value of one hex digit byte, or -1 (InvalidHexCharacter).
HexVal(b) ==
    IF b \in 48..57 THEN b - 48
    ELSE IF b \in 97..102 THEN b - 87
    ELSE IF b \in 65..70 THEN b - 55
    ELSE -1

\* hex::decode: OddLength first, then InvalidHexCharacter, else the bytes.
hex_crate_decode(input) ==
    IF Len(input) % 2 # 0 THEN Err(<<"OddLength">>)
    ELSE IF \E i \in 1..Len(input) : HexVal(input[i]) = -1
         THEN Err(<<"InvalidHexCharacter">>)
    ELSE Ok([i \in 1..(Len(input) \div 2) |->
               HexVal(input[2 * i - 1]) * 16 + HexVal(input[2 * i])])

\* Mutant: the "0x" prefix is never stripped.
strip_prefix_0x_Missing(input) == input

\* <[u8]>::strip_prefix(b"0x").unwrap_or(input)
strip_prefix_0x(input) ==
    IF Len(input) >= 2 /\ input[1] = 48 /\ input[2] = 120
    THEN SubSeq(input, 3, Len(input))
    ELSE input

\* Mutant: all trailing line ends are trimmed, not one LF.
RECURSIVE strip_suffix_Trim(_)
strip_suffix_Trim(input) ==
    IF Len(input) >= 1 /\ input[Len(input)] \in {10, 13}
    THEN strip_suffix_Trim(SubSeq(input, 1, Len(input) - 1))
    ELSE input

\* <[u8]>::strip_suffix(b"\n").unwrap_or(input)
strip_suffix_nl(input) ==
    IF Len(input) >= 1 /\ input[Len(input)] = 10
    THEN SubSeq(input, 1, Len(input) - 1)
    ELSE input

hex_decode(input, is_hex) ==
    IF is_hex
    THEN WithContext(hex_crate_decode(strip_suffix_nl(strip_prefix_0x(input))),
                     "Failed to decode quote file")
    ELSE Ok(input)

\* ------------------------------------------- the record export (derive(Debug))

TypeName == <<"Q", "u", "o", "t", "e", "C", "o", "l", "l", "a", "t", "e", "r", "a", "l",
              "V", "3", "J", "s", "o", "n">>
F_tcb_info_issuer_chain ==
    <<"t", "c", "b", "_", "i", "n", "f", "o", "_", "i", "s", "s", "u", "e", "r", "_",
      "c", "h", "a", "i", "n">>
F_tcb_info == <<"t", "c", "b", "_", "i", "n", "f", "o">>
F_tcb_info_signature ==
    <<"t", "c", "b", "_", "i", "n", "f", "o", "_", "s", "i", "g", "n", "a", "t", "u",
      "r", "e">>
F_qe_identity_issuer_chain ==
    <<"q", "e", "_", "i", "d", "e", "n", "t", "i", "t", "y", "_", "i", "s", "s", "u",
      "e", "r", "_", "c", "h", "a", "i", "n">>
F_qe_identity == <<"q", "e", "_", "i", "d", "e", "n", "t", "i", "t", "y">>
F_qe_identity_signature ==
    <<"q", "e", "_", "i", "d", "e", "n", "t", "i", "t", "y", "_", "s", "i", "g", "n",
      "a", "t", "u", "r", "e">>

\* char::escape_debug inside a string literal.
escape_debug(c) ==
    CASE c = "\"" -> <<"\\", "\"">>
      [] c = "\\" -> <<"\\", "\\">>
      [] c = "\n" -> <<"\\", "n">>
      [] OTHER -> <<c>>

\* <str as Debug>::fmt: the text between double quotes, escaped.
DebugString(s) ==
    <<"\"">> \o Concat([i \in 1..Len(s) |-> escape_debug(s[i])]) \o <<"\"">>

DebugField(name, value) == name \o <<":", " ">> \o DebugString(value)

\* format!("{:?}", json) of the derived Debug: Name { f: v, ..., f: v }
DebugFmt(j) ==
    TypeName \o <<" ", "{", " ">>
      \o DebugField(F_tcb_info_issuer_chain, j.tcb_info_issuer_chain) \o <<",", " ">>
      \o DebugField(F_tcb_info, j.tcb_info) \o <<",", " ">>
      \o DebugField(F_tcb_info_signature, j.tcb_info_signature) \o <<",", " ">>
      \o DebugField(F_qe_identity_issuer_chain, j.qe_identity_issuer_chain) \o <<",", " ">>
      \o DebugField(F_qe_identity, j.qe_identity) \o <<",", " ">>
      \o DebugField(F_qe_identity_signature, j.qe_identity_signature)
      \o <<" ", "}">>

\* The record built from the retrieved collateral.
QuoteCollateralV3Json(c) ==
    [tcb_info_issuer_chain |-> c.tcb_info_issuer_chain,
     tcb_info |-> c.tcb_info,
     tcb_info_signature |-> hex_encode(c.tcb_info_signature),
     qe_identity_issuer_chain |-> c.qe_identity_issuer_chain,
     qe_identity |-> c.qe_identity,
     qe_identity_signature |-> hex_encode(c.qe_identity_signature)]

\* Mutant: the split is one character short.
SplitIndex_OffByOne == 22 - 1

\* The index the debug rendering is split at.
SplitIndex == 22

\* str::split_at(mid): panics when mid is past the end (the text here is ASCII,
\* so every index is a character boundary).
split_at(s, mid) ==
    IF mid <= Len(s)
    THEN Ok(<<SubSeq(s, 1, mid), SubSeq(s, mid + 1, Len(s))>>)
    ELSE Err(<<"panic: byte index out of bounds">>)

\* ------------------------------------------------------ collateral source

\* Duration::from_secs(60) of both retrieval calls.
TimeoutSecs == 60

\* std::env::var: Ok only for a variable that is set to valid Unicode.
env_var(e) ==
    IF e.kind = "unicode" THEN Ok(e.val)
    ELSE IF e.kind = "unset" THEN Err(<<"NotPresent">>)
    ELSE Err(<<"NotUnicode">>)

\* Result<String, _>::unwrap_or_default
unwrap_or_default(r) == IF r.ok THEN r.val ELSE ""

\* Mutant: the emptiness test is inverted.
RetrievalRequest_Inverted(url, q) ==
    IF url # ""
    THEN [fn |-> "get_collateral_from_pcs", url |-> "", quote |-> q,
          timeout |-> TimeoutSecs]
    ELSE [fn |-> "get_collateral", url |-> url, quote |-> q, timeout |-> TimeoutSecs]

\* The request the chosen branch issues for a quote.
RetrievalRequest(url, q) ==
    IF url = ""
    THEN [fn |-> "get_collateral_from_pcs", url |-> "", quote |-> q,
          timeout |-> TimeoutSecs]
    ELSE [fn |-> "get_collateral", url |-> url, quote |-> q, timeout |-> TimeoutSecs]

\* Mutant: the status line names the PCS whatever the source.
StatusLine_AlwaysPcs(url) ==
    [kind |-> "status", text |-> "Getting collateral from PCS...", url |-> ""]

\* The status line the chosen branch prints before its request.
StatusLine(url) ==
    IF url = ""
    THEN [kind |-> "status", text |-> "Getting collateral from PCS...", url |-> ""]
    ELSE [kind |-> "status", text |-> "Getting collateral from ", url |-> url]

\* The context main() puts in front of a command's error.
MainContext(c) ==
    CASE c = "decode" -> "Failed to decode quote"
      [] c = "verify" -> "Failed to verify quote"
      [] c = "collateral" -> "Failed to decode quote"

\* ------------------------------------------------------------------ inputs

Commands == {"decode", "verify", "collateral"}

\* The bytes raw file contents are enumerated over: '0' 'x' LF 'a' 'F' CR 'g'.
RawAlphabet == {48, 120, 10, 97, 70, 13, 103}
\* The bytes the encoded byte sequences B are made of.
ByteVals == {0, 10, 171, 255}

\* A hex dump of B with an optional "0x" in front and an optional LF behind.
HexDump(B, prefixed, newline) ==
    AsBytes((IF prefixed THEN <<"0", "x">> ELSE <<>>) \o hex_encode(B)
              \o (IF newline THEN <<"\n">> ELSE <<>>))

HexDumps == {HexDump(B, p, n) : B \in SeqsUpTo(ByteVals, MaxBytes), p \in BOOLEAN, n \in BOOLEAN}

\* Every file content of the decode runs.
AllContents ==
    SeqsUpTo(RawAlphabet, MaxText) \cup SeqsUpTo(ByteVals, MaxBytes) \cup HexDumps

\* The file contents of the verify and collateral runs: empty, raw binary,
\* a prefixed hex dump, a bare hex dump, and two malformed hex texts.
SomeContents ==
    {<<>>, <<0, 171>>, HexDump(<<0, 171>>, TRUE, TRUE), HexDump(<<255>>, FALSE, FALSE),
     <<48, 103>>, <<48, 48, 13, 10>>}

\* The quote file: missing/unreadable, or its content.
Files(contents) ==
    {[exists |-> FALSE, data |-> <<>>]} \cup {[exists |-> TRUE, data |-> d] : d \in contents}

\* PCCS_URL in the environment.
PccsEnv ==
    {[kind |-> "unset", val |-> ""], [kind |-> "not_unicode", val |-> "\\xff"]}
      \cup {[kind |-> "unicode", val |-> u] :
              u \in {"", "https://pccs.example:8081", "http://localhost"}}

TextVals == {<<>>, <<"a", "\"", "\n">>}
SigVals == SeqsUpTo({10}, MaxSig)

Collaterals ==
    [tcb_info_issuer_chain : TextVals, tcb_info : TextVals, tcb_info_signature : SigVals,
     qe_identity_issuer_chain : TextVals, qe_identity : TextVals,
     qe_identity_signature : SigVals]

\* Unix seconds the clock may show.
Times == {1762000000, 1762000060}

NoCollateral ==
    [tcb_info_issuer_chain |-> <<>>, tcb_info |-> <<>>, tcb_info_signature |-> <<>>,
     qe_identity_issuer_chain |-> <<>>, qe_identity |-> <<>>,
     qe_identity_signature |-> <<>>]
NoReport == [quote |-> <<>>, collateral |-> NoCollateral, now |-> -1]

\* ------------------------------------------------------------------- state

VARIABLES
    cmd,           \* the subcommand of the invocation
    hex,           \* args.hex
    file,          \* args.quote_file as the file system holds it
    env,           \* PCCS_URL in the environment
    pc,            \* the position in the command
    quote,         \* the bytes read, then the normalised quote
    decoded,       \* decode: the parsed quote
    json,          \* decode: its JSON text; collateral: the export record
    pccs_url,      \* the resolved PCCS_URL
    collateral,    \* the retrieved collateral
    now,           \* verify: the captured Unix seconds
    report,        \* verify: the verification report
    out,           \* collateral: the text to write to the file
    stdout,        \* lines printed to standard output
    stderr,        \* lines printed to the diagnostic stream
    requests,      \* collateral requests issued
    verify_calls,  \* calls of the verifier, with their arguments
    clock_reads,   \* readings of the system clock
    disk,          \* files written in the working directory
    result,        \* what the command returned to main
    exit_status,   \* the process exit status, -1 while running
    trace,         \* the steps completed so far, in order
    failed         \* the steps that failed

args == <<cmd, hex, file, env>>
locals == <<quote, decoded, json, pccs_url, collateral, now, report, out>>
effects == <<stdout, stderr, requests, verify_calls, clock_reads, disk>>
vars == <<cmd, hex, file, env, pc, quote, decoded, json, pccs_url, collateral, now,
          report, out, stdout, stderr, requests, verify_calls, clock_reads, disk,
          result, exit_status, trace, failed>>

Running == [state |-> "running", err |-> <<>>]

InitWith(cmds, contents, envs) ==
    /\ cmd \in cmds
    /\ hex \in BOOLEAN
    /\ file \in Files(contents)
    /\ env \in envs
    /\ pc = "read"
    /\ quote = <<>>
    /\ decoded = <<>>
    /\ json = <<>>
    /\ pccs_url = ""
    /\ collateral = NoCollateral
    /\ now = -1
    /\ report = NoReport
    /\ out = <<>>
    /\ stdout = <<>>
    /\ stderr = <<>>
    /\ requests = <<>>
    /\ verify_calls = <<>>
    /\ clock_reads = <<>>
    /\ disk = <<>>
    /\ result = Running
    /\ exit_status = -1
    /\ trace = <<>>
    /\ failed = <<>>

Init == InitWith(Commands, SomeContents, PccsEnv)
\* decode never reads the environment: PCCS_URL is left unset.
InitDecode == InitWith({"decode"}, AllContents, {[kind |-> "unset", val |-> ""]})

\* ----------------------------------------------------------------- control

\* A step completed: go on to the next position.
Goto(step, next) ==
    /\ pc' = next
    /\ trace' = Append(trace, step)
    /\ UNCHANGED <<result, exit_status, failed>>

\* A step failed and `?` returns its error to main.
Fail(step, chain) ==
    /\ pc' = "return"
    /\ result' = [state |-> "err", err |-> chain]
    /\ failed' = Append(failed, step)
    /\ UNCHANGED <<exit_status, trace>>

\* A step panicked: the process unwinds out of main.
Panic(step, message) ==
    /\ pc' = "return"
    /\ result' = [state |-> "panic", err |-> <<message>>]
    /\ failed' = Append(failed, step)
    /\ UNCHANGED <<exit_status, trace>>

\* The last step completed and the command returns Ok(()).
ReturnOk(step) ==
    /\ pc' = "return"
    /\ result' = [state |-> "ok", err |-> <<>>]
    /\ trace' = Append(trace, step)
    /\ UNCHANGED <<exit_status, failed>>

\* The position after normalisation.
AfterNormalize(c) == IF c = "decode" THEN "parse" ELSE "resolve"
\* The position after the collateral arrived.
AfterRetrieve(c) == IF c = "verify" THEN "now" ELSE "build"

\* ----------------------------------------------------- steps of all commands

\* std::fs::read(args.quote_file).context("Failed to read quote file")?
ReadQuoteFile ==
    /\ pc = "read"
    /\ IF file.exists
       THEN /\ quote' = file.data
            /\ Goto("read", "normalize")
       ELSE /\ Fail("read", <<"Failed to read quote file", "io::Error">>)
            /\ UNCHANGED quote
    /\ UNCHANGED <<args, decoded, json, pccs_url, collateral, now, report, out, effects>>

\* let quote = hex_decode(&quote, args.hex)?
Normalize ==
    /\ pc = "normalize"
    /\ LET r == hex_decode(quote, hex) IN
         IF r.ok
         THEN /\ quote' = r.val
              /\ Goto("normalize", AfterNormalize(cmd))
         ELSE /\ Fail("normalize", r.err)
              /\ UNCHANGED quote
    /\ UNCHANGED <<args, decoded, json, pccs_url, collateral, now, report, out, effects>>

\* ------------------------------------------------------------------ decode

\* Quote::parse(&quote).context("Failed to parse quote")?
ParseQuote ==
    /\ pc = "parse"
    /\ \E parsed \in BOOLEAN :
         IF parsed
         THEN /\ decoded' = <<[kind |-> "Quote", of |-> quote]>>
              /\ Goto("parse", "serialize")
         ELSE /\ Fail("parse", <<"Failed to parse quote", "ParseError">>)
              /\ UNCHANGED decoded
    /\ UNCHANGED <<args, quote, json, pccs_url, collateral, now, report, out, effects>>

\* serde_json::to_string(&decoded_quote).context("Failed to serialize quote")?
SerializeQuote ==
    /\ pc = "serialize"
    /\ \E serialized \in BOOLEAN :
         IF serialized
         THEN /\ json' = <<[kind |-> "json", of |-> decoded[1]]>>
              /\ Goto("serialize", "print_quote")
         ELSE /\ Fail("serialize", <<"Failed to serialize quote", "serde_json::Error">>)
              /\ UNCHANGED json
    /\ UNCHANGED <<args, quote, decoded, pccs_url, collateral, now, report, out, effects>>

\* println!("{}", json); Ok(())
PrintQuote ==
    /\ pc = "print_quote"
    /\ stdout' = Append(stdout, json[1])
    /\ ReturnOk("report")
    /\ UNCHANGED <<args, locals, stderr, requests, verify_calls, clock_reads, disk>>

\* ------------------------------------------------- verify and collateral

\* let pccs_url = std::env::var("PCCS_URL").unwrap_or_default()
ResolveSource ==
    /\ pc = "resolve"
    /\ pccs_url' = unwrap_or_default(env_var(env))
    /\ Goto("resolve", "status")
    /\ UNCHANGED <<args, quote, decoded, json, collateral, now, report, out, effects>>

\* eprintln!("Getting collateral from ...") of the branch taken
EmitStatus ==
    /\ pc = "status"
    /\ stderr' = Append(stderr, StatusLine(pccs_url))
    /\ Goto("status", "request")
    /\ UNCHANGED <<args, locals, stdout, requests, verify_calls, clock_reads, disk>>

\* get_collateral_from_pcs(&quote, 60 s) or get_collateral(&pccs_url, &quote, 60 s)
SendRequest ==
    /\ pc = "request"
    /\ requests' = Append(requests, RetrievalRequest(pccs_url, quote))
    /\ Goto("request", "await")
    /\ UNCHANGED <<args, locals, stdout, stderr, verify_calls, clock_reads, disk>>

\* Mutant: a failed retrieval is retried once.
AwaitCollateral_Retry ==
    /\ pc = "await"
    /\ \/ \E c \in Collaterals :
            /\ collateral' = c
            /\ Goto("retrieve", AfterRetrieve(cmd))
       \/ \E cause \in {"collateral request failed", "collateral request timed out"} :
            /\ IF Len(requests) < 2
               THEN /\ pc' = "request"
                    /\ failed' = Append(failed, "retrieve")
                    /\ UNCHANGED <<result, exit_status, trace>>
               ELSE Fail("retrieve", <<cause>>)
            /\ UNCHANGED collateral
    /\ UNCHANGED <<args, quote, decoded, json, pccs_url, now, report, out, effects>>

\* .await? : the collateral, or the library's error (a failure or the timeout)
AwaitCollateral ==
    /\ pc = "await"
    /\ \/ \E c \in Collaterals :
            /\ collateral' = c
            /\ Goto("retrieve", AfterRetrieve(cmd))
       \/ \E cause \in {"collateral request failed", "collateral request timed out"} :
            /\ Fail("retrieve", <<cause>>)
            /\ UNCHANGED collateral
    /\ UNCHANGED <<args, quote, decoded, json, pccs_url, now, report, out, effects>>

\* ------------------------------------------------------------------ verify

\* SystemTime::now().duration_since(UNIX_EPOCH)?.as_secs()
CaptureNow ==
    /\ pc = "now"
    /\ \/ \E t \in Times :
            /\ now' = t
            /\ clock_reads' = Append(clock_reads, t)
            /\ Goto("now", "verify")
       \/ /\ clock_reads' = Append(clock_reads, -1)
          /\ Fail("now", <<"SystemTimeError">>)
          /\ UNCHANGED now
    /\ UNCHANGED <<args, quote, decoded, json, pccs_url, collateral, report, out,
                   stdout, stderr, requests, verify_calls, disk>>

\* Mutant: a quote that fails verification is reported all the same.
VerifyQuote_IgnoreFailure ==
    /\ pc = "verify"
    /\ verify_calls' =
         Append(verify_calls, [quote |-> quote, collateral |-> collateral, now |-> now])
    /\ \E verified \in BOOLEAN :
         IF verified
         THEN /\ report' = [quote |-> quote, collateral |-> collateral, now |-> now]
              /\ Goto("verify", "print_report")
         ELSE /\ report' = NoReport
              /\ pc' = "print_report"
              /\ failed' = Append(failed, "verify")
              /\ UNCHANGED <<result, exit_status, trace>>
    /\ UNCHANGED <<args, quote, decoded, json, pccs_url, collateral, now, out,
                   stdout, stderr, requests, clock_reads, disk>>

\* Mutant: the verifier is given a fresh reading of the clock.
VerifyQuote_FreshClock ==
    /\ pc = "verify"
    /\ \E t \in Times :
         /\ clock_reads' = Append(clock_reads, t)
         /\ verify_calls' =
              Append(verify_calls, [quote |-> quote, collateral |-> collateral, now |-> t])
         /\ \E verified \in BOOLEAN :
              IF verified
              THEN /\ report' = [quote |-> quote, collateral |-> collateral, now |-> t]
                   /\ Goto("verify", "print_report")
              ELSE /\ Fail("verify", <<"Failed to verify quote">>)
                   /\ UNCHANGED report
    /\ UNCHANGED <<args, quote, decoded, json, pccs_url, collateral, now, out,
                   stdout, stderr, requests, disk>>

\* verify(&quote, &collateral, now).ok().context("Failed to verify quote")?
VerifyQuote ==
    /\ pc = "verify"
    /\ verify_calls' =
         Append(verify_calls, [quote |-> quote, collateral |-> collateral, now |-> now])
    /\ \E verified \in BOOLEAN :
         IF verified
         THEN /\ report' = [quote |-> quote, collateral |-> collateral, now |-> now]
              /\ Goto("verify", "print_report")
         ELSE /\ Fail("verify", <<"Failed to verify quote">>)
              /\ UNCHANGED report
    /\ UNCHANGED <<args, quote, decoded, json, pccs_url, collateral, now, out,
                   stdout, stderr, requests, clock_reads, disk>>

\* println!("{}", serde_json::to_string(&report).unwrap())
PrintReport ==
    /\ pc = "print_report"
    /\ \E serialized \in BOOLEAN :
         IF serialized
         THEN /\ stdout' = Append(stdout, [kind |-> "json", of |-> report])
              /\ Goto("report", "confirm")
         ELSE /\ Panic("report", "called Result::unwrap() on an Err value")
              /\ UNCHANGED stdout
    /\ UNCHANGED <<args, locals, stderr, requests, verify_calls, clock_reads, disk>>

\* eprintln!("Quote verified"); Ok(())
ConfirmVerified ==
    /\ pc = "confirm"
    /\ stderr' = Append(stderr, [kind |-> "info", text |-> "Quote verified", url |-> ""])
    /\ ReturnOk("confirm")
    /\ UNCHANGED <<args, locals, stdout, requests, verify_calls, clock_reads, disk>>

\* -------------------------------------------------------------- collateral

\* let json = QuoteCollateralV3Json { ... }
BuildRecord ==
    /\ pc = "build"
    /\ json' = <<QuoteCollateralV3Json(collateral)>>
    /\ Goto("build", "format")
    /\ UNCHANGED <<args, quote, decoded, pccs_url, collateral, now, report, out, effects>>

\* let out_str = format!("{:?}", json); let (_, out) = out_str.split_at(22)
FormatRecord ==
    /\ pc = "format"
    /\ LET r == split_at(DebugFmt(json[1]), SplitIndex) IN
         IF r.ok
         THEN /\ out' = r.val[2]
              /\ Goto("format", "write")
         ELSE /\ Panic("format", r.err[1])
              /\ UNCHANGED out
    /\ UNCHANGED <<args, quote, decoded, json, pccs_url, collateral, now, report, effects>>

\* std::fs::write("quote_collateral.json", out); the Result is dropped
WriteExport ==
    /\ pc = "write"
    /\ \E written \in BOOLEAN :
         IF written
         THEN /\ disk' = Append(disk, [name |-> "quote_collateral.json", data |-> out])
              /\ Goto("write", "print_record")
         ELSE /\ disk' = disk
              /\ pc' = "print_record"
              /\ failed' = Append(failed, "write")
              /\ UNCHANGED <<result, exit_status, trace>>
    /\ UNCHANGED <<args, locals, stdout, stderr, requests, verify_calls, clock_reads>>

\* println!("{:?}", json); Ok(())
PrintRecord ==
    /\ pc = "print_record"
    /\ stdout' = Append(stdout, [kind |-> "debug", of |-> DebugFmt(json[1])])
    /\ ReturnOk("report")
    /\ UNCHANGED <<args, locals, stderr, requests, verify_calls, clock_reads, disk>>

\* -------------------------------------------------------------------- main

\* main() returns the command's result with the command's context in front;
\* the runtime prints the chain of an Err and exits 1, a panic exits 101.
MainExit ==
    /\ pc = "return"
    /\ pc' = "exited"
    /\ IF result.state = "ok"
       THEN /\ exit_status' = 0
            /\ UNCHANGED <<result, stderr>>
       ELSE IF result.state = "err"
       THEN /\ exit_status' = 1
            /\ result' = [state |-> "err", err |-> <<MainContext(cmd)>> \o result.err]
            /\ stderr' = Append(stderr, [kind |-> "error", text |-> "Error", url |-> ""])
       ELSE /\ exit_status' = 101
            /\ stderr' = Append(stderr, [kind |-> "panic", text |-> result.err[1], url |-> ""])
            /\ UNCHANGED result
    /\ UNCHANGED <<args, locals, stdout, requests, verify_calls, clock_reads, disk,
                   trace, failed>>

\* ---------------------------------------------------------- specifications

DecodeNext ==
    \/ ReadQuoteFile
    \/ Normalize
    \/ ParseQuote
    \/ SerializeQuote
    \/ PrintQuote
    \/ MainExit

Next ==
    \/ DecodeNext
    \/ ResolveSource
    \/ EmitStatus
    \/ SendRequest
    \/ AwaitCollateral
    \/ CaptureNow
    \/ VerifyQuote
    \/ PrintReport
    \/ ConfirmVerified
    \/ BuildRecord
    \/ FormatRecord
    \/ WriteExport
    \/ PrintRecord

\* Every command, over a few quote files.
Spec == Init /\ [][Next]_vars

\* The decode command, over every quote file content within the bounds.
SpecDecode == InitDecode /\ [][DecodeNext]_vars

\* ------------------------------------------------------------ properties

InSeq(x, s) == \E i \in 1..Len(s) : s[i] = x
IsPrefix(a, b) == Len(a) <= Len(b) /\ a = SubSeq(b, 1, Len(a))
Count(s, k) == Len(SelectSeq(s, LAMBDA l : l.kind = k))
Terminated == pc \in {"return", "exited"}

\* C1: in every command a failing step (the write of quote_collateral.json
\* included) ends the command there: nothing after it runs, the exit status
\* is nonzero, and status zero means that no step failed.
C1_FailureAborts ==
    /\ failed # <<>> => Terminated /\ exit_status # 0
    /\ exit_status = 0 => failed = <<>>

\* Whether a phrase at the head of an error chain describes the command run:
\* the phrase of the decode or verify command does not describe another one.
DescribesCommand(phrase, c) ==
    CASE c = "decode" -> phrase = "Failed to decode quote"
      [] c = "verify" -> phrase = "Failed to verify quote"
      [] c = "collateral" -> phrase \notin {"Failed to decode quote", "Failed to verify quote"}

\* C7: a failure of any fallible step of any command ends with an error chain
\* headed by a phrase describing the command, then a phrase describing the
\* failed step, and ending in the original cause (three entries at least).
C7_ErrorChain ==
    (pc = "exited" /\ exit_status # 0) =>
        /\ result.state = "err"
        /\ Len(result.err) >= 3
        /\ DescribesCommand(result.err[1], cmd)

\* C2: verify prints the report only after read, normalisation, retrieval,
\* timestamp and verification all succeeded, prints "Quote verified" only
\* after the report, and on success prints each exactly once.
C2_NoPartialSuccess ==
    cmd = "verify" =>
        /\ Len(stdout) <= 1 /\ Count(stderr, "info") <= 1
        /\ stdout # <<>> =>
             /\ failed = <<>>
             /\ \A st \in {"read", "normalize", "retrieve", "now", "verify"} : InSeq(st, trace)
             /\ verify_calls # <<>>
             /\ stdout[1] = [kind |-> "json", of |-> report]
             /\ report = verify_calls[1]
        /\ Count(stderr, "info") = 1 => Len(stdout) = 1
        /\ exit_status = 0 => Len(stdout) = 1 /\ Count(stderr, "info") = 1

C2_Witness ==
    cmd = "verify" /\ exit_status = 0 /\ Count(stderr, "info") = 1

\* C3 as stated: PCCS_URL unset or empty selects the public PCS, and every
\* nonempty value u selects get_collateral with exactly u.
C3_AnyNonemptyValue ==
    requests # <<>> =>
        IF env.kind = "unset" \/ env.val = ""
        THEN requests[1].fn = "get_collateral_from_pcs"
        ELSE requests[1].fn = "get_collateral" /\ requests[1].url = env.val

\* C3 amended: PCCS_URL unset, empty or not valid Unicode selects the public
\* PCS, and every nonempty valid Unicode value u selects get_collateral with
\* exactly u.
C3_SourceResolution ==
    requests # <<>> =>
        IF env.kind = "unicode" /\ env.val # ""
        THEN requests[1].fn = "get_collateral" /\ requests[1].url = env.val
        ELSE requests[1].fn = "get_collateral_from_pcs"

C3_Witness ==
    /\ cmd = "collateral" /\ requests # <<>>
    /\ env.kind = "unicode" /\ env.val = "http://localhost"

\* C6: a verify or collateral run that reaches retrieval issues exactly one
\* request, to one of the two strategies, with a 60 second timeout; a failed
\* or timed-out retrieval ends the run (no retry, nothing printed to standard
\* output, nonzero exit); decode issues none.
C6_SingleRetrieval ==
    /\ Len(requests) <= 1
    /\ cmd = "decode" => requests = <<>>
    /\ InSeq("request", trace) => Len(requests) = 1
    /\ \A i \in 1..Len(requests) :
         /\ requests[i].timeout = 60
         /\ requests[i].quote = quote
         /\ \/ requests[i].fn = "get_collateral_from_pcs"
            \/ requests[i].fn = "get_collateral" /\ requests[i].url # ""
    /\ InSeq("retrieve", failed) =>
         /\ Terminated /\ exit_status # 0
         /\ Len(requests) = 1 /\ stdout = <<>> /\ disk = <<>> /\ verify_calls = <<>>

C6_Witness ==
    /\ pc = "exited" /\ failed = <<"retrieve">>
    /\ result.err[Len(result.err)] = "collateral request timed out"

\* The steps of C8, in the order of each command.
StepOrder(c) ==
    CASE c = "decode" -> <<"read", "normalize", "report">>
      [] c = "verify" -> <<"read", "normalize", "retrieve", "now", "verify", "report">>
      [] c = "collateral" -> <<"read", "normalize", "retrieve", "report">>

\* C8: the steps read, normalize, retrieve, verify, report complete in that
\* order, none skipped, and none after one of them failed; verify reads the
\* clock once, after retrieval and before the verifier, and passes the value
\* read to the verifier.
C8_StepOrder ==
    LET main == {"read", "normalize", "retrieve", "now", "verify", "report"} IN
    /\ IsPrefix(SelectSeq(trace, LAMBDA st : st \in main), StepOrder(cmd))
    /\ (\E i \in 1..Len(failed) : failed[i] \in main) => Terminated
    /\ Len(clock_reads) <= 1 /\ Len(verify_calls) <= 1
    /\ cmd # "verify" => clock_reads = <<>> /\ verify_calls = <<>>
    /\ clock_reads # <<>> => InSeq("retrieve", trace)
    /\ verify_calls # <<>> =>
         /\ clock_reads = <<now>>
         /\ verify_calls[1] = [quote |-> quote, collateral |-> collateral, now |-> now]

C8_Witness ==
    /\ cmd = "verify" /\ pc = "exited" /\ verify_calls # <<>>
    /\ now = 1762000060 /\ trace[Len(trace)] = "confirm"

\* C9: verify and collateral print exactly one status line before the
\* request, after normalisation succeeded, naming the source the request then
\* goes to; none is printed when read or normalisation fails, nor by decode.
C9_StatusLine ==
    /\ Count(stderr, "status") <= 1
    /\ Len(requests) <= Count(stderr, "status")
    /\ cmd = "decode" => Count(stderr, "status") = 0
    /\ (InSeq("read", failed) \/ InSeq("normalize", failed)) => Count(stderr, "status") = 0
    /\ Count(stderr, "status") = 1 =>
         /\ stderr[1].kind = "status"
         /\ InSeq("normalize", trace)
    /\ requests # <<>> =>
         /\ stderr[1].url = requests[1].url
         /\ requests[1].fn = "get_collateral_from_pcs"
              <=> stderr[1].text = "Getting collateral from PCS..."
         /\ requests[1].fn = "get_collateral"
              <=> stderr[1].text = "Getting collateral from "

C9_Witness ==
    /\ cmd = "verify" /\ requests # <<>> /\ requests[1].fn = "get_collateral"
    /\ stderr[1].url = "https://pccs.example:8081"

\* C10: the collateral command builds the six-field record from the retrieved
\* collateral (text fields copied, signatures hex-encoded), writes to
\* quote_collateral.json the debug rendering printed to standard output less
\* its first 22 characters (the type name and a space), so the file starts at
\* the opening brace, and the removal of the prefix never fails.
C10_CollateralExport ==
    cmd = "collateral" =>
        /\ result.state # "panic"
        /\ json # <<>> =>
             /\ json[1].tcb_info_issuer_chain = collateral.tcb_info_issuer_chain
             /\ json[1].tcb_info = collateral.tcb_info
             /\ json[1].qe_identity_issuer_chain = collateral.qe_identity_issuer_chain
             /\ json[1].qe_identity = collateral.qe_identity
             /\ hex_crate_decode(AsBytes(json[1].tcb_info_signature))
                  = Ok(collateral.tcb_info_signature)
             /\ hex_crate_decode(AsBytes(json[1].qe_identity_signature))
                  = Ok(collateral.qe_identity_signature)
        /\ \A i \in 1..Len(disk) :
             /\ disk[i].name = "quote_collateral.json"
             /\ disk[i].data[1] = "{"
        /\ (disk # <<>> /\ stdout # <<>>) =>
             /\ Len(disk) = 1 /\ Len(stdout) = 1
             /\ Len(stdout[1].of) = Len(disk[1].data) + 22
             /\ stdout[1].of = TypeName \o <<" ">> \o disk[1].data
             /\ stdout[1].of = DebugFmt(json[1])

C10_Witness ==
    /\ cmd = "collateral" /\ exit_status = 0 /\ disk # <<>>
    /\ collateral.tcb_info = <<"a", "\"", "\n">>
    /\ collateral.qe_identity_signature = <<10>>

\* ------------------------------------------------- properties of hex_decode

HexBytes == (48..57) \cup (65..70) \cup (97..102)

\* What is left of a file content after at most one leading "0x" and then at
\* most one trailing LF are taken off.
Remainder(d) ==
    LET p == IF Len(d) >= 2 /\ SubSeq(d, 1, 2) = <<48, 120>> THEN 2 ELSE 0
        s == IF Len(d) > p /\ d[Len(d)] = 10 THEN 1 ELSE 0
    IN  SubSeq(d, p + 1, Len(d) - s)

\* Every hex dump within the bounds, with the byte sequence it is a dump of.
DumpTable ==
    {[bytes |-> B, dump |-> HexDump(B, p, n)] :
        B \in SeqsUpTo(ByteVals, MaxBytes), p \in BOOLEAN, n \in BOOLEAN}

\* C4: for every byte sequence B, with or without "0x" in front and with or
\* without one LF behind, the hex dump of B normalises to exactly B, and so
\* decode --hex prints what decode prints for the raw bytes B.
C4_HexRoundTrip ==
    file.exists =>
        \A e \in (IF hex THEN {d \in DumpTable : d.dump = file.data}
                  ELSE {[bytes |-> file.data, dump |-> <<>>]}) :
            /\ ~InSeq("normalize", failed)
            /\ InSeq("normalize", trace) => quote = e.bytes
            /\ stdout # <<>> =>
                 stdout = <<[kind |-> "json", of |-> [kind |-> "Quote", of |-> e.bytes]]>>

C4_Witness ==
    /\ hex /\ file.data = HexDump(<<0, 171>>, TRUE, TRUE)
    /\ quote = <<0, 171>> /\ stdout # <<>>

\* C5: with --hex, normalisation fails with the context "Failed to decode
\* quote file" exactly when the remainder has odd length or holds a byte that
\* is no hex digit (a second "0x", a second LF or a CR is not stripped);
\* without --hex it never fails.
C5_DecodeErrors ==
    (file.exists /\ pc \notin {"read", "normalize"}) =>
        LET rest == Remainder(file.data)
            bad == Len(rest) % 2 # 0 \/ \E i \in 1..Len(rest) : rest[i] \notin HexBytes
        IN  /\ InSeq("normalize", failed) <=> (hex /\ bad)
            /\ InSeq("normalize", failed) =>
                 /\ result.state = "err"
                 /\ InSeq("Failed to decode quote file", result.err)

C5_Witness ==
    /\ hex /\ file.data = <<48, 120, 48, 120>> /\ failed = <<"normalize">>
    /\ pc = "exited"

====
